---- MODULE Spec2Model ----
(***************************************************************************)
(* Mudras: hand-controlled CV sequencer.                                   *)
(*                                                                         *)
(* The module models the sequencing engine of the most complete firmware   *)
(* revision (src/unnamed/part_001: reset edge, audio-taper threshold       *)
(* tables, separate scale / linear step storage).  The main loop is cut    *)
(* into the steps at which an interrupt handler (gate, reset) can run.     *)
(***************************************************************************)
EXTENDS Integers, Sequences, FiniteSets, TLC

VARIABLES
    pc,             \* position of the main loop ("halted": setup() never returned)
    clockInput,     \* volatile bool clockInput, set by gate()
    count,          \* uint8_t count: the cursor
    countSize,      \* uint8_t countSize: last valid step index
    NoteMode,       \* int NoteMode: 0..6 scale, 7 linear
    NumberOfNotes,  \* uint8_t NumberOfNotes
    mm,             \* int mm
    raw_mm,         \* int raw_mm
    dacU,           \* int dacU
    sequence,       \* uint8_t sequence[64]
    sequenceLinear, \* uint8_t sequenceLinear[64]
    fullScales,     \* uint8_t fullScales[7][37], filled by generateFullScales()
    spill,          \* the byte of memory that sequence[255] names
    spillLinear,    \* the byte of memory that sequenceLinear[255] names
    reg,            \* the register holding count during count++
    PB5,            \* level of the record button pin at its last read ("LOW": held)
    PA4,            \* code last written to the DAC pin
    countFlag,      \* int countFlag of src/mudras.ino: 1 after a play tick
    scaleKnob,      \* scaleKnob.getValue(): the scale knob at its last change
    noteSeqPot,     \* noteSeqPot.getValue(): the length knob at its last change
    scaleIndex,     \* generateFullScales: the row being built
    noteIndex,      \* generateFullScales: entries of the row written so far
    patternIndex,   \* generateFullScales: the pattern slot read next
    octave,         \* generateFullScales: octaveMultiplier is octave * 12
    nEdges,         \* clock edges so far
    nResets,        \* reset edges so far
    tick,           \* history: the tick being processed
    trace           \* history: the ticks processed since power-up

vars == <<pc, clockInput, count, countSize, NoteMode, NumberOfNotes, mm, raw_mm,
          dacU, sequence, sequenceLinear, fullScales, spill, spillLinear, reg,
          PB5, PA4, countFlag, scaleKnob, noteSeqPot,
          scaleIndex, noteIndex, patternIndex, octave, nEdges, nResets, tick, trace>>

----------------------------------------------------------------------------
(* Bounds of the model *)

\* clock edges and reset edges in a run of the firmware
MaxEdges == 3
MaxResets == 1
\* clock edges in a run with the knobs at rest and no reset edge
MaxSteadyEdges == 6

\* distance readings the sensor delivers (mm): the top of the range, and
\* above the range
SensorValues == {700, 701}
\* positions of the scale knob: Major, Chromatic, linear
ScaleKnobValues == {0, 600, 900}
\* positions of the length knob: 2 and 4 steps
LengthKnobValues == {5, 100}
\* contents a byte outside every array can have
GarbageBytes == {0, 255}

----------------------------------------------------------------------------
(* Program constants *)

RESOLUTION_12_BIT == 4096
TopRange == 700
ScaleTypeCount == 7
StepCapacity == 64
FullScaleLength == 37
PatternSlots == 12
Sentinel == 255

Byte(x) == x % 256

\* C integer division truncates toward zero
TruncDiv(a, b) == IF a >= 0 THEN a \div b ELSE -((-a) \div b)

\* Arduino map(): (x - in_min) * (out_max - out_min) / (in_max - in_min) + out_min
map(x, in_min, in_max, out_min, out_max) ==
    TruncDiv((x - in_min) * (out_max - out_min), in_max - in_min) + out_min

\* Arduino constrain()
constrain(x, lo, hi) == IF x < lo THEN lo ELSE IF x > hi THEN hi ELSE x

----------------------------------------------------------------------------
(* Scale table generator *)

scalePatterns ==
    << <<0, 2, 4, 5, 7, 9, 11, 255, 0, 0, 0, 0>>,
       <<0, 2, 3, 5, 7, 8, 10, 255, 0, 0, 0, 0>>,
       <<0, 3, 5, 7, 10, 255, 0, 0, 0, 0, 0, 0>>,
       <<0, 2, 3, 5, 7, 8, 11, 255, 0, 0, 0, 0>>,
       <<0, 1, 3, 4, 6, 7, 9, 10, 255, 0, 0, 0>>,
       <<0, 2, 4, 6, 8, 10, 255, 0, 0, 0, 0, 0>>,
       <<0, 1, 2, 3, 4, 5, 6, 7, 8, 9, 10, 11>> >>

\* scalePatterns[scaleIndex][patternIndex]; the rows are contiguous, and a read
\* past the last row returns whatever byte lies there (pastEnd)
PatternAt(si, pi, pastEnd) ==
    LET flat == si * PatternSlots + pi
    IN  IF flat < ScaleTypeCount * PatternSlots
        THEN scalePatterns[(flat \div PatternSlots) + 1][(flat % PatternSlots) + 1]
        ELSE pastEnd

\* the while loop of generateFullScales for one scale: row is the table row
\* built so far (a sequence of noteIndex entries)
RECURSIVE GenerateRow(_, _, _, _, _)
GenerateRow(si, row, pi, oct, pastEnd) ==
    IF Len(row) >= FullScaleLength THEN row
    ELSE IF PatternAt(si, pi, pastEnd) = Sentinel
         THEN IF oct + 1 >= 4
              THEN \* break, then memset(.., 36, 37 - noteIndex)
                   row \o [i \in 1..(FullScaleLength - Len(row)) |-> 36]
              ELSE GenerateRow(si,
                       Append(row, Byte(PatternAt(si, 0, pastEnd)
                                        + Byte((oct + 1) * 12))),
                       1, oct + 1, pastEnd)
         ELSE GenerateRow(si,
                  Append(row, Byte(PatternAt(si, pi, pastEnd)
                                   + Byte(oct * 12))),
                  pi + 1, oct, pastEnd)

generateFullScales(pastEnd) ==
    [s \in 0..(ScaleTypeCount - 1) |->
        LET row == GenerateRow(s, <<>>, 0, 0, pastEnd)
        IN  [i \in 0..(FullScaleLength - 1) |-> row[i + 1]]]

\* the tables generateFullScales() can leave, one per content of the bytes
\* past the pattern rows
GeneratedTables == [pastEnd \in GarbageBytes |-> generateFullScales(pastEnd)]

\* the values entry [s][i] can have after generateFullScales()
EntryValues(s, i) == {GeneratedTables[pastEnd][s][i] : pastEnd \in GarbageBytes}

\* fullScales after setup(): an entry that depends on the bytes past the
\* pattern rows is Unknown
Unknown == 0 - 1
TableAfterSetup ==
    [s \in 0..(ScaleTypeCount - 1) |->
        [i \in 0..(FullScaleLength - 1) |->
            IF Cardinality(EntryValues(s, i)) = 1
            THEN CHOOSE v \in EntryValues(s, i) : TRUE
            ELSE Unknown]]

----------------------------------------------------------------------------
(* Mode / control surface: the two threshold tables *)

\* NoteMode after scaleMode() with the scale knob at scalemode
scaleModeNote(scalemode, old) ==
    IF scalemode < 18 THEN 0
    ELSE IF scalemode > 18 /\ scalemode <= 53 THEN 1
    ELSE IF scalemode >= 54 /\ scalemode <= 105 THEN 2
    ELSE IF scalemode >= 106 /\ scalemode <= 180 THEN 3
    ELSE IF scalemode >= 181 /\ scalemode <= 227 THEN 4
    ELSE IF scalemode >= 228 /\ scalemode <= 535 THEN 5
    ELSE IF scalemode >= 536 /\ scalemode <= 799 THEN 6
    ELSE IF scalemode >= 800 THEN 7
    ELSE old

\* NumberOfNotes after scaleMode() with the scale knob at scalemode
scaleModeNotes(scalemode, old) ==
    IF scalemode < 18 THEN 23
    ELSE IF scalemode > 18 /\ scalemode <= 53 THEN 23
    ELSE IF scalemode >= 54 /\ scalemode <= 105 THEN 19
    ELSE IF scalemode >= 106 /\ scalemode <= 180 THEN 23
    ELSE IF scalemode >= 181 /\ scalemode <= 227 THEN 29
    ELSE IF scalemode >= 228 /\ scalemode <= 535 THEN 20
    ELSE IF scalemode >= 536 /\ scalemode <= 799 THEN 35
    ELSE old

\* loopLength as it would be with the first band written as scaleMode writes it
loopLengthSize_gap(seqLength, old) ==
    IF seqLength < 9 THEN 1
    ELSE IF seqLength > 9 /\ seqLength <= 45 THEN 2
    ELSE IF seqLength >= 46 /\ seqLength <= 120 THEN 3
    ELSE IF seqLength >= 121 /\ seqLength <= 210 THEN 7
    ELSE IF seqLength >= 211 /\ seqLength <= 360 THEN 15
    ELSE IF seqLength >= 361 /\ seqLength <= 799 THEN 31
    ELSE IF seqLength >= 800 THEN 63
    ELSE old

\* countSize after loopLength() with the length knob at seqLength
loopLengthSize(seqLength, old) ==
    IF seqLength <= 9 THEN 1
    ELSE IF seqLength >= 10 /\ seqLength <= 45 THEN 2
    ELSE IF seqLength >= 46 /\ seqLength <= 120 THEN 3
    ELSE IF seqLength >= 121 /\ seqLength <= 210 THEN 7
    ELSE IF seqLength >= 211 /\ seqLength <= 360 THEN 15
    ELSE IF seqLength >= 361 /\ seqLength <= 799 THEN 31
    ELSE IF seqLength >= 800 THEN 63
    ELSE old

----------------------------------------------------------------------------
(* CV codec *)

\* A float is [m, e], standing for m * 2^e with 2^23 <= m < 2^24, or m = 0 for
\* zero.  The operations round to nearest, ties to even, as the single-precision
\* operations of the target do.  Intermediate values stay below 2^31.
CeilDiv(a, b) == (a + b - 1) \div b

F32Zero == [m |-> 0, e |-> 0]

RECURSIVE F32Normal(_, _)
F32Normal(m, e) ==
    IF m = 0 THEN F32Zero
    ELSE IF m < 2^23 THEN F32Normal(2 * m, e - 1)
    ELSE [m |-> m, e |-> e]

\* (float) n, for an integer 0 <= n < 2^24
F32FromInt(n) == F32Normal(n, 0)

\* m plus the fraction rem / unit, rounded to an integer mantissa
F32Round(m, rem, unit, e) ==
    LET up == 2 * rem > unit \/ (2 * rem = unit /\ m % 2 = 1)
        m1 == IF up THEN m + 1 ELSE m
    IN  IF m1 = 2^24 THEN [m |-> 2^23, e |-> e + 1] ELSE [m |-> m1, e |-> e]

\* a * b: the 48-bit product of the mantissas, from 12-bit halves
F32Mul(a, b) ==
    IF a.m = 0 \/ b.m = 0 THEN F32Zero
    ELSE LET ah == a.m \div 2^12
             al == a.m % 2^12
             bh == b.m \div 2^12
             bl == b.m % 2^12
             mid == ah * bl + al * bh
             low == (mid % 2^12) * 2^12 + al * bl
             hi == ah * bh + mid \div 2^12 + low \div 2^24
             lo == low % 2^24
         IN  IF hi >= 2^23
             THEN F32Round(hi, lo, 2^24, a.e + b.e + 24)
             ELSE F32Round(2 * hi + lo \div 2^23, lo % 2^23, 2^23, a.e + b.e + 23)

\* k more bits of the quotient q with remainder r of a division by b
RECURSIVE F32LongDiv(_, _, _, _)
F32LongDiv(q, r, b, k) ==
    IF k = 0 THEN [q |-> q, r |-> r]
    ELSE IF 2 * r >= b THEN F32LongDiv(2 * q + 1, 2 * r - b, b, k - 1)
    ELSE F32LongDiv(2 * q, 2 * r, b, k - 1)

\* a / b, b not zero
F32Div(a, b) ==
    IF a.m = 0 THEN F32Zero
    ELSE LET k == IF a.m >= b.m THEN 23 ELSE 24
             d == F32LongDiv(a.m \div b.m, a.m % b.m, b.m, k)
         IN  F32Round(d.q, d.r, b.m, a.e - b.e - k)

\* (uint32_t) ceil(x), for 0 <= x < 2^31
F32Ceil(x) ==
    IF x.m = 0 THEN 0
    ELSE IF x.e >= 0 THEN x.m * 2^(x.e)
    ELSE IF 0 - x.e >= 24 THEN 1
    ELSE CeilDiv(x.m, 2^(0 - x.e))

\* float volts_per_semitone = 1.0f / semitones_per_octave
volts_per_semitone == F32Div(F32FromInt(1), F32FromInt(12))

\* the literal 3.3f (fix is 0): the float nearest to 33/10
max_volt == F32Div(F32FromInt(33), F32FromInt(10))

midi_note_to_volts(midi_note) == F32Mul(F32FromInt(midi_note), volts_per_semitone)

\* volts_to_DAC as it would be with the code truncated instead of rounded up
volts_to_DAC_truncating(volts) ==
    LET x == F32Mul(F32Div(volts, max_volt), F32FromInt(RESOLUTION_12_BIT - 1))
    IN  IF x.m = 0 THEN 0
        ELSE IF x.e >= 0 THEN x.m * 2^(x.e)
        ELSE IF 0 - x.e >= 24 THEN 0
        ELSE x.m \div 2^(0 - x.e)

\* volts_to_DAC(volts, RESOLUTION_12_BIT, 0.0f, 3.3f + fix)
volts_to_DAC(volts) ==
    LET volt_range == max_volt
        normalized_value == F32Div(volts, volt_range)
    IN  F32Ceil(F32Mul(normalized_value, F32FromInt(RESOLUTION_12_BIT - 1)))

\* volts_to_DAC(midi_note_to_volts(midi_note), ...) for every byte a step can
\* hold, worked out once
dacCode == [midi_note \in 0..255 |-> volts_to_DAC(midi_note_to_volts(midi_note))]

----------------------------------------------------------------------------
(* Step storage *)

InStore(i) == i \in 0..(StepCapacity - 1)

\* the values array[i] of a 64-byte array can yield; an index outside the
\* array names the byte cell, whose content is Unknown until it is written
Load(array, cell, i) ==
    IF InStore(i) THEN {array[i]}
    ELSE IF cell = Unknown THEN GarbageBytes ELSE {cell}

\* the lookup as it would be if it ignored the mode and read the first row
FullScaleLoads_first_row(mode, noteIdx) ==
    IF noteIdx \in 0..(FullScaleLength - 1)
    THEN IF fullScales[0][noteIdx] = Unknown
         THEN EntryValues(0, noteIdx)
         ELSE {fullScales[0][noteIdx]}
    ELSE GarbageBytes

\* the note index playSeq looks up, and the semitones fullScales[NoteMode][note]
\* can yield: a column past the row reads a byte outside the table
FullScaleLoads(mode, noteIdx) ==
    IF noteIdx \in 0..(FullScaleLength - 1)
    THEN IF fullScales[mode][noteIdx] = Unknown
         THEN EntryValues(mode, noteIdx)
         ELSE {fullScales[mode][noteIdx]}
    ELSE GarbageBytes

\* the value recordSeq stores for a reading mm: 0 outside [50, TopRange],
\* else the note index (scale modes) or the linear code
MappedValue(reading, mode, notes) ==
    IF reading > TopRange \/ reading < 50 THEN 0
    ELSE IF mode # 7
         THEN constrain(map(reading, 50, TopRange, 0, notes), 0, notes)
         ELSE constrain(map(reading, 50, TopRange, 0, 4095), 0, 4095)


\* the codes the CV output can carry for a value under a mode: the scale note
\* through the codec, or the linear code itself
OutputsFor(mode, value) ==
    IF mode # 7
    THEN {volts_to_DAC(midi_note_to_volts(midi_note)) :
             midi_note \in FullScaleLoads(mode, value)}
    ELSE {value}

----------------------------------------------------------------------------
(* History of the processed ticks; the firmware never reads it *)

\* rec: the button was read held; idx: the cursor at that read; above: the
\* sensor value captured is above the ceiling and want: the codes that stand
\* for the value captured (record ticks); out: the code emitted
NoTick == [rec |-> FALSE, idx |-> 0 - 1, above |-> FALSE, want |-> {}, out |-> 0 - 1]

----------------------------------------------------------------------------
(* Power-up: the globals' initializers, then setup() *)

Init ==
    /\ \E begun \in BOOLEAN, scalemode \in ScaleKnobValues, seqLength \in LengthKnobValues :
           \* lox.begin() fails: while (10); never leaves setup()
           /\ pc = IF begun THEN "knobs" ELSE "halted"
           /\ countSize = IF begun THEN loopLengthSize(seqLength, 3) ELSE 3
           /\ NoteMode = IF begun THEN scaleModeNote(scalemode, 0) ELSE 0
           /\ NumberOfNotes = IF begun THEN scaleModeNotes(scalemode, 0) ELSE 0
           /\ scaleKnob = IF begun THEN scalemode ELSE 0
           /\ noteSeqPot = IF begun THEN seqLength ELSE 0
    /\ clockInput = FALSE
    /\ count = Byte(-1)
    /\ mm = 0
    /\ raw_mm = 0
    /\ dacU = 0
    /\ sequence = [i \in 0..(StepCapacity - 1) |-> 0]
    /\ sequenceLinear = [i \in 0..(StepCapacity - 1) |-> 0]
    /\ fullScales = TableAfterSetup
    /\ spill = Unknown
    /\ spillLinear = Unknown
    /\ reg = 0
    /\ PB5 = "HIGH"
    /\ PA4 = 0
    /\ countFlag = 0
    /\ nEdges = 0
    /\ nResets = 0
    /\ tick = NoTick
    /\ scaleIndex = ScaleTypeCount
    /\ noteIndex = 0
    /\ patternIndex = 0
    /\ octave = 0
    /\ trace = <<>>

----------------------------------------------------------------------------
(* Interrupt handlers and the environment *)

\* falling edge on the clock input
gate ==
    /\ clockInput' = TRUE
    /\ nEdges' = nEdges + 1
    /\ UNCHANGED <<scaleIndex, noteIndex, patternIndex, octave, scaleKnob, noteSeqPot, countFlag, pc, count, countSize, NoteMode, NumberOfNotes, mm, raw_mm, dacU,
                   sequence, sequenceLinear, fullScales, spill, spillLinear, reg,
                   PA4, PB5, nResets>>

\* reset() as it would be if it restored the initializer of count
reset_to_initializer ==
    /\ count' = Byte(-1)
    /\ nResets' = nResets + 1
    /\ UNCHANGED <<scaleIndex, noteIndex, patternIndex, octave, scaleKnob, noteSeqPot, countFlag, pc, clockInput, countSize, NoteMode, NumberOfNotes, mm, raw_mm,
                   dacU, sequence, sequenceLinear, fullScales, spill, spillLinear,
                   reg, PA4, PB5, nEdges>>

\* falling edge on the reset input
reset ==
    /\ count' = 0
    /\ nResets' = nResets + 1
    /\ UNCHANGED <<scaleIndex, noteIndex, patternIndex, octave, scaleKnob, noteSeqPot, countFlag, pc, clockInput, countSize, NoteMode, NumberOfNotes, mm, raw_mm,
                   dacU, sequence, sequenceLinear, fullScales, spill, spillLinear,
                   reg, PA4, PB5, nEdges>>

----------------------------------------------------------------------------
(* The main loop *)

scaleMode(scalemode) ==
    /\ NoteMode' = scaleModeNote(scalemode, NoteMode)
    /\ NumberOfNotes' = scaleModeNotes(scalemode, NumberOfNotes)

loopLength(seqLength) ==
    countSize' = loopLengthSize(seqLength, countSize)

\* ReadKnobs(): each knob either reports a change or does not
ReadKnobs ==
    /\ pc = "knobs"
    /\ pc' = "sensor"
    /\ \/ \E scalemode \in ScaleKnobValues :
              scaleKnob' = scalemode /\ scaleMode(scalemode)
       \/ UNCHANGED <<scaleKnob, NoteMode, NumberOfNotes>>
    /\ \/ \E seqLength \in LengthKnobValues :
              noteSeqPot' = seqLength /\ loopLength(seqLength)
       \/ UNCHANGED <<noteSeqPot, countSize>>
    /\ UNCHANGED <<scaleIndex, noteIndex, patternIndex, octave, countFlag, clockInput, count, mm, raw_mm, dacU, sequence, sequenceLinear,
                   fullScales, spill, spillLinear, reg, PA4, PB5, nEdges, nResets>>

\* ReadKnobs() when neither knob reports a change
KnobsAtRest ==
    /\ pc = "knobs"
    /\ pc' = "sensor"
    /\ UNCHANGED <<scaleIndex, noteIndex, patternIndex, octave, scaleKnob, noteSeqPot, countFlag, clockInput, count, countSize, NoteMode, NumberOfNotes, mm, raw_mm,
                   dacU, sequence, sequenceLinear, fullScales, spill, spillLinear,
                   reg, PA4, PB5, nEdges, nResets>>

readsensor(reading) == mm' = reading

\* if (lox.isRangeComplete()) readsensor();
PollSensor ==
    /\ pc = "sensor"
    /\ pc' = "test"
    /\ \/ \E reading \in SensorValues : readsensor(reading)
       \/ UNCHANGED mm
    /\ UNCHANGED <<scaleIndex, noteIndex, patternIndex, octave, scaleKnob, noteSeqPot, countFlag, clockInput, count, countSize, NoteMode, NumberOfNotes, raw_mm,
                   dacU, sequence, sequenceLinear, fullScales, spill, spillLinear,
                   reg, PA4, PB5, nEdges, nResets>>

\* the test of the flag as it would be if the output were muted between ticks
TestFlag_muting ==
    /\ pc = "test"
    /\ pc' = IF clockInput THEN "clear" ELSE "knobs"
    /\ PA4' = IF clockInput THEN PA4 ELSE 0
    /\ UNCHANGED <<scaleIndex, noteIndex, patternIndex, octave, scaleKnob, noteSeqPot, countFlag, clockInput, count, countSize, NoteMode, NumberOfNotes, mm, raw_mm,
                   dacU, sequence, sequenceLinear, fullScales, spill, spillLinear,
                   reg, PB5, nEdges, nResets>>

\* if (clockInput)
TestFlag ==
    /\ pc = "test"
    /\ pc' = IF clockInput THEN "clear" ELSE "knobs"
    /\ UNCHANGED <<scaleIndex, noteIndex, patternIndex, octave, scaleKnob, noteSeqPot, countFlag, clockInput, count, countSize, NoteMode, NumberOfNotes, mm, raw_mm,
                   dacU, sequence, sequenceLinear, fullScales, spill, spillLinear,
                   reg, PA4, PB5, nEdges, nResets>>

\* the start of a tick as it would be if the flag were left set
ClearFlag_flag_kept ==
    /\ pc = "clear"
    /\ pc' = "button"
    /\ UNCHANGED <<scaleIndex, noteIndex, patternIndex, octave, scaleKnob, noteSeqPot, countFlag, clockInput, count, countSize, NoteMode, NumberOfNotes, mm, raw_mm, dacU,
                   sequence, sequenceLinear, fullScales, spill, spillLinear, reg,
                   PA4, PB5, nEdges, nResets>>

\* clockInput = 0
ClearFlag ==
    /\ pc = "clear"
    /\ pc' = "button"
    /\ clockInput' = FALSE
    /\ UNCHANGED <<scaleIndex, noteIndex, patternIndex, octave, scaleKnob, noteSeqPot, countFlag, count, countSize, NoteMode, NumberOfNotes, mm, raw_mm, dacU,
                   sequence, sequenceLinear, fullScales, spill, spillLinear, reg,
                   PA4, PB5, nEdges, nResets>>

\* the stores of recordSeq(), up to its call of playSeq()
recordSeq ==
    IF mm > TopRange \/ mm < 50
    THEN /\ mm' = 0
         /\ IF InStore(count)
            THEN sequence' = [sequence EXCEPT ![count] = 0] /\ UNCHANGED spill
            ELSE spill' = 0 /\ UNCHANGED sequence
         /\ UNCHANGED <<raw_mm, sequenceLinear, spillLinear>>
    ELSE IF NoteMode # 7
         THEN /\ mm' = MappedValue(mm, NoteMode, NumberOfNotes)
              /\ IF InStore(count)
                 THEN sequence' = [sequence EXCEPT ![count] = Byte(mm')]
                      /\ UNCHANGED spill
                 ELSE spill' = Byte(mm') /\ UNCHANGED sequence
              /\ UNCHANGED <<raw_mm, sequenceLinear, spillLinear>>
         ELSE /\ raw_mm' = MappedValue(mm, NoteMode, NumberOfNotes)
              /\ IF InStore(count)
                 THEN sequenceLinear' = [sequenceLinear EXCEPT ![count] = Byte(raw_mm')]
                      /\ UNCHANGED spillLinear
                 ELSE spillLinear' = Byte(raw_mm') /\ UNCHANGED sequenceLinear
              /\ UNCHANGED <<mm, sequence, spill>>

\* if (digitalRead(PB5) == LOW) recordSeq(); else playSeq();
ReadButton ==
    /\ pc = "button"
    /\ pc' = "play"
    /\ PB5' \in {"LOW", "HIGH"}
    /\ IF PB5' = "LOW"
       THEN recordSeq
       ELSE UNCHANGED <<mm, raw_mm, sequence, sequenceLinear, spill, spillLinear>>
    /\ UNCHANGED <<scaleIndex, noteIndex, patternIndex, octave, scaleKnob, noteSeqPot, countFlag, clockInput, count, countSize, NoteMode, NumberOfNotes, dacU,
                   fullScales, reg, PA4, nEdges, nResets>>

\* playSeq(), called by loop() or at the end of recordSeq()
playSeq ==
    IF NoteMode # 7
    THEN /\ \E note \in Load(sequence, spill, count) :
            \E midi_note \in FullScaleLoads(NoteMode, note) :
                dacU' = dacCode[midi_note]
         /\ PA4' = dacU'
    ELSE /\ \E linear \in Load(sequenceLinear, spillLinear, count) : PA4' = linear
         /\ UNCHANGED dacU

Play ==
    /\ pc = "play"
    /\ pc' = "load"
    /\ playSeq
    /\ UNCHANGED <<scaleIndex, noteIndex, patternIndex, octave, scaleKnob, noteSeqPot, countFlag, clockInput, count, countSize, NoteMode, NumberOfNotes, mm, raw_mm,
                   sequence, sequenceLinear, fullScales, spill, spillLinear, reg,
                   PB5, nEdges, nResets>>

\* incrementAndWrapCount(count, countSize): count is read ...
LoadCount ==
    /\ pc = "load"
    /\ pc' = "store"
    /\ reg' = count
    /\ UNCHANGED <<scaleIndex, noteIndex, patternIndex, octave, scaleKnob, noteSeqPot, countFlag, clockInput, count, countSize, NoteMode, NumberOfNotes, mm, raw_mm,
                   dacU, sequence, sequenceLinear, fullScales, spill, spillLinear,
                   PA4, PB5, nEdges, nResets>>

\* incrementAndWrapCount as it would be with count >= maxSize
incrementAndWrapCount_early(c, maxSize) ==
    IF Byte(c + 1) >= maxSize THEN 0 ELSE Byte(c + 1)

\* incrementAndWrapCount as it would be without the wrap
incrementAndWrapCount_nowrap(c, maxSize) == Byte(c + 1)

\* incrementAndWrapCount as it would be if it wrapped at the end of the storage
incrementAndWrapCount_at_capacity(c, maxSize) ==
    IF Byte(c + 1) > StepCapacity - 1 THEN 0 ELSE Byte(c + 1)

\* count++; if (count > maxSize) count = 0;
incrementAndWrapCount(c, maxSize) ==
    IF Byte(c + 1) > maxSize THEN 0 ELSE Byte(c + 1)

\* the write-back as it would be if the flag were cleared after the tick
StoreCount_clearing_flag ==
    /\ pc = "store"
    /\ pc' = "knobs"
    /\ count' = IF Byte(reg + 1) > countSize THEN 0 ELSE Byte(reg + 1)
    /\ reg' = 0
    /\ clockInput' = FALSE
    /\ UNCHANGED <<scaleIndex, noteIndex, patternIndex, octave, scaleKnob, noteSeqPot, countFlag, countSize, NoteMode, NumberOfNotes, mm, raw_mm, dacU,
                   sequence, sequenceLinear, fullScales, spill, spillLinear,
                   PA4, PB5, nEdges, nResets>>

\* ... and written back; the register is dead afterwards
StoreCount ==
    /\ pc = "store"
    /\ pc' = "knobs"
    /\ count' = incrementAndWrapCount(reg, countSize)
    /\ reg' = 0
    /\ UNCHANGED <<scaleIndex, noteIndex, patternIndex, octave, scaleKnob, noteSeqPot, countFlag, clockInput, countSize, NoteMode, NumberOfNotes, mm, raw_mm, dacU,
                   sequence, sequenceLinear, fullScales, spill, spillLinear,
                   PA4, PB5, nEdges, nResets>>

\* one step of loop()
loop ==
    \/ ReadKnobs
    \/ PollSensor
    \/ TestFlag
    \/ ClearFlag
    \/ ReadButton
    \/ Play
    \/ LoadCount
    \/ StoreCount

\* the cursor has left its initializer
CursorStarted == count # Byte(-1)

----------------------------------------------------------------------------
(* The firmware under every interleaving of its inputs *)

\* no history is kept
Unobserved == UNCHANGED <<tick, trace>>

ClockEdge == nEdges < MaxEdges /\ gate

ResetEdge == nResets < MaxResets /\ reset

Next ==
    \/ ClockEdge /\ Unobserved
    \/ ResetEdge /\ Unobserved
    \/ ReadKnobs /\ Unobserved
    \/ PollSensor /\ Unobserved
    \/ TestFlag /\ Unobserved
    \/ ClearFlag /\ Unobserved
    \/ ReadButton /\ Unobserved
    \/ Play /\ Unobserved
    \/ LoadCount /\ Unobserved
    \/ StoreCount /\ Unobserved

Spec == Init /\ [][Next]_vars

\* loop() is called again whenever it returns, so the main loop always takes
\* its next step; setup() that never returned has no next step
MainLoop == loop /\ Unobserved

FairSpec == Spec /\ WF_vars(MainLoop)

----------------------------------------------------------------------------
(* The firmware with the knobs at rest and no reset edge, its ticks logged *)

ObserveButton ==
    /\ tick' = [rec |-> PB5' = "LOW",
                idx |-> count,
                above |-> PB5' = "LOW" /\ mm > TopRange,
                want |-> IF PB5' = "LOW"
                         THEN OutputsFor(NoteMode,
                                  MappedValue(mm, NoteMode, NumberOfNotes))
                         ELSE {},
                out |-> 0 - 1]
    /\ UNCHANGED trace

ObservePlay ==
    /\ tick' = [tick EXCEPT !.out = PA4']
    /\ UNCHANGED trace

ObserveStore ==
    /\ trace' = Append(trace, [rec |-> tick.rec, idx |-> tick.idx, above |-> tick.above,
                               want |-> tick.want, out |-> tick.out,
                               after |-> count'])
    /\ tick' = NoTick

SteadyEdge == nEdges < MaxSteadyEdges /\ gate

SteadyNext ==
    \/ SteadyEdge /\ Unobserved
    \/ KnobsAtRest /\ Unobserved
    \/ PollSensor /\ Unobserved
    \/ TestFlag /\ Unobserved
    \/ ClearFlag /\ Unobserved
    \/ ReadButton /\ ObserveButton
    \/ Play /\ ObservePlay
    \/ LoadCount /\ Unobserved
    \/ StoreCount /\ ObserveStore

SpecSteady == Init /\ [][SteadyNext]_vars

----------------------------------------------------------------------------
(* The firmware with the knobs at rest and no reset edge, its sensor samples  *)
(* logged: trace holds the last reading readsensor() delivered, tick the      *)
(* last record tick if no play tick and no new reading has come since.        *)

\* the byte recordSeq() leaves in the step at cursor c under the current mode
Stored(c) == IF NoteMode # 7 THEN sequence[c] ELSE sequenceLinear[c]

\* mm holds a reading as delivered: recordSeq() has not overwritten it
ObserveSample ==
    /\ trace' = IF mm' \in SensorValues THEN <<mm'>> ELSE trace
    /\ tick' = IF mm' # mm THEN NoTick ELSE tick

ObserveRecord ==
    /\ tick' = IF PB5' = "LOW" /\ InStore(count)
               THEN [NoTick EXCEPT !.rec = TRUE, !.idx = count, !.out = Stored(count)']
               ELSE NoTick
    /\ UNCHANGED trace

SampleNext ==
    \/ SteadyEdge /\ Unobserved
    \/ KnobsAtRest /\ Unobserved
    \/ PollSensor /\ ObserveSample
    \/ TestFlag /\ Unobserved
    \/ ClearFlag /\ Unobserved
    \/ ReadButton /\ ObserveRecord
    \/ Play /\ Unobserved
    \/ LoadCount /\ Unobserved
    \/ StoreCount /\ Unobserved

SpecSample == Init /\ [][SampleNext]_vars

----------------------------------------------------------------------------
(* The firmware under every interleaving, with the reset edge logged: trace   *)
(* holds the position of the main loop at which the reset edge fell and, once *)
(* the main loop has begun the next tick, the position of that beginning.     *)

ObserveReset ==
    /\ trace' = <<pc>>
    /\ UNCHANGED tick

\* the clear of the flag begins a tick: the next tick after a reset edge
ObserveClear ==
    /\ trace' = IF Len(trace) = 1 THEN Append(trace, pc) ELSE trace
    /\ UNCHANGED tick

\* the cursor write-back ends the tick: the next tick after the reset edge is over
ObserveAdvance ==
    /\ trace' = IF Len(trace) = 2 THEN <<>> ELSE trace
    /\ UNCHANGED tick

ResetNext ==
    \/ ClockEdge /\ Unobserved
    \/ ResetEdge /\ ObserveReset
    \/ ReadKnobs /\ Unobserved
    \/ PollSensor /\ Unobserved
    \/ TestFlag /\ Unobserved
    \/ ClearFlag /\ ObserveClear
    \/ ReadButton /\ Unobserved
    \/ Play /\ Unobserved
    \/ LoadCount /\ Unobserved
    \/ StoreCount /\ ObserveAdvance

SpecReset == Init /\ [][ResetNext]_vars

----------------------------------------------------------------------------
(* The firmware under every interleaving, with the steps accessed beyond the  *)
(* loop length logged: trace holds the cursors above countSize at which a     *)
(* step was played or recorded since the length knob last lowered countSize   *)
(* below the cursor.                                                          *)

MaxLengthEdges == 4

\* the length knob has lowered countSize below the cursor
LoweredBelowCursor == countSize' < countSize /\ countSize' < count /\ CursorStarted

ObserveLength ==
    /\ trace' = IF LoweredBelowCursor THEN <<>> ELSE trace
    /\ UNCHANGED tick

ObserveAccess ==
    /\ trace' = IF CursorStarted /\ count > countSize THEN Append(trace, count) ELSE trace
    /\ UNCHANGED tick

LengthEdge == nEdges < MaxLengthEdges /\ gate

LengthNext ==
    \/ LengthEdge /\ Unobserved
    \/ ResetEdge /\ Unobserved
    \/ ReadKnobs /\ ObserveLength
    \/ PollSensor /\ Unobserved
    \/ TestFlag /\ Unobserved
    \/ ClearFlag /\ Unobserved
    \/ ReadButton /\ Unobserved
    \/ Play /\ ObserveAccess
    \/ LoadCount /\ Unobserved
    \/ StoreCount /\ Unobserved

SpecLength == Init /\ [][LengthNext]_vars

----------------------------------------------------------------------------
(* The knobs alone: one knob is turned to any position of its range and      *)
(* ReadKnobs() sees the change, with the rest of the firmware at rest.        *)

\* the highest value a knob reports (10-bit conversion)
KnobMax == 1023

KnobRest == <<pc, clockInput, count, mm, raw_mm, dacU, sequence, sequenceLinear,
              fullScales, spill, spillLinear, reg, PA4, PB5, countFlag, nEdges,
              nResets, scaleIndex, noteIndex, patternIndex, octave>>

\* scaleKnob.hasChanged(): scaleMode()
TurnScaleKnob ==
    /\ pc = "knobs"
    /\ \E scalemode \in 0..KnobMax :
           /\ scalemode # scaleKnob
           /\ scaleKnob' = scalemode
           /\ scaleMode(scalemode)
    /\ UNCHANGED <<noteSeqPot, countSize>>
    /\ UNCHANGED KnobRest

\* noteSeqPot.hasChanged(): loopLength()
TurnLengthKnob ==
    /\ pc = "knobs"
    /\ \E seqLength \in 0..KnobMax :
           /\ seqLength # noteSeqPot
           /\ noteSeqPot' = seqLength
           /\ loopLength(seqLength)
    /\ UNCHANGED <<scaleKnob, NoteMode, NumberOfNotes>>
    /\ UNCHANGED KnobRest

ScaleKnobNext == TurnScaleKnob /\ Unobserved

SpecScaleKnob == Init /\ [][ScaleKnobNext]_vars

LengthKnobNext == TurnLengthKnob /\ Unobserved

SpecLengthKnob == Init /\ [][LengthKnobNext]_vars

----------------------------------------------------------------------------
(* generateFullScales(), one iteration of its while loop at a time, from the  *)
(* zero-initialised table.                                                    *)

\* the bytes scalePatterns[si][pi] can yield
PatternLoads(si, pi) == {PatternAt(si, pi, pastEnd) : pastEnd \in GarbageBytes}

\* the globals' initializers, at the call of generateFullScales()
Init_generate ==
    /\ pc = "generate"
    /\ countSize = 3
    /\ NoteMode = 0
    /\ NumberOfNotes = 0
    /\ scaleKnob = 0
    /\ noteSeqPot = 0
    /\ clockInput = FALSE
    /\ count = Byte(-1)
    /\ mm = 0
    /\ raw_mm = 0
    /\ dacU = 0
    /\ sequence = [i \in 0..(StepCapacity - 1) |-> 0]
    /\ sequenceLinear = [i \in 0..(StepCapacity - 1) |-> 0]
    /\ fullScales = [s \in 0..(ScaleTypeCount - 1) |->
                        [i \in 0..(FullScaleLength - 1) |-> 0]]
    /\ spill = Unknown
    /\ spillLinear = Unknown
    /\ reg = 0
    /\ PB5 = "HIGH"
    /\ PA4 = 0
    /\ countFlag = 0
    /\ nEdges = 0
    /\ nResets = 0
    /\ scaleIndex = 0
    /\ noteIndex = 0
    /\ patternIndex = 0
    /\ octave = 0
    /\ tick = NoTick
    /\ trace = <<>>

GenerateRest == <<clockInput, count, countSize, NoteMode, NumberOfNotes, mm, raw_mm,
                  dacU, sequence, sequenceLinear, spill, spillLinear, reg, PB5, PA4,
                  countFlag, scaleKnob, noteSeqPot, nEdges, nResets>>

\* one iteration of while (noteIndex < 37): the sentinel test, then either the
\* break or the entry written
GenerateNote ==
    /\ pc = "generate"
    /\ noteIndex < FullScaleLength
    /\ \E slot \in PatternLoads(scaleIndex, patternIndex) :
           IF slot = Sentinel
           THEN IF octave + 1 >= 4
                THEN /\ pc' = "pad"
                     /\ patternIndex' = 0
                     /\ octave' = octave + 1
                     /\ UNCHANGED <<noteIndex, fullScales>>
                ELSE /\ pc' = "generate"
                     /\ \E first \in PatternLoads(scaleIndex, 0) :
                            fullScales' = [fullScales EXCEPT ![scaleIndex][noteIndex] =
                                              Byte(first + Byte((octave + 1) * 12))]
                     /\ noteIndex' = noteIndex + 1
                     /\ patternIndex' = 1
                     /\ octave' = octave + 1
           ELSE /\ pc' = "generate"
                /\ fullScales' = [fullScales EXCEPT ![scaleIndex][noteIndex] =
                                      Byte(slot + Byte(octave * 12))]
                /\ noteIndex' = noteIndex + 1
                /\ patternIndex' = patternIndex + 1
                /\ UNCHANGED octave
    /\ UNCHANGED scaleIndex
    /\ UNCHANGED GenerateRest

\* the while loop left with the row full
RowFull ==
    /\ pc = "generate"
    /\ noteIndex >= FullScaleLength
    /\ pc' = "pad"
    /\ UNCHANGED <<scaleIndex, noteIndex, patternIndex, octave, fullScales>>
    /\ UNCHANGED GenerateRest

\* memset(&fullScales[scaleIndex][noteIndex], 36, 37 - noteIndex), and the
\* next round of the for loop
PadRow ==
    /\ pc = "pad"
    /\ fullScales' = [fullScales EXCEPT ![scaleIndex] =
                          [i \in 0..(FullScaleLength - 1) |->
                              IF i >= noteIndex THEN 36 ELSE fullScales[scaleIndex][i]]]
    /\ scaleIndex' = scaleIndex + 1
    /\ noteIndex' = 0
    /\ patternIndex' = 0
    /\ octave' = 0
    /\ pc' = IF scaleIndex + 1 < ScaleTypeCount THEN "generate" ELSE "generated"
    /\ UNCHANGED GenerateRest

GenerateNext ==
    \/ GenerateNote /\ Unobserved
    \/ RowFull /\ Unobserved
    \/ PadRow /\ Unobserved

SpecGenerate == Init_generate /\ [][GenerateNext]_vars

----------------------------------------------------------------------------
(* The CV codec alone: playSeq() on one step, for every scale and every note  *)
(* index of the table.                                                        *)

\* setup() done, a scale selected, a note index in step 0, the cursor on it
Init_codec ==
    /\ pc = "play"
    /\ countSize = 3
    /\ NoteMode \in 0..(ScaleTypeCount - 1)
    /\ NumberOfNotes = 0
    /\ scaleKnob = 0
    /\ noteSeqPot = 0
    /\ clockInput = FALSE
    /\ count = 0
    /\ mm = 0
    /\ raw_mm = 0
    /\ dacU = 0
    /\ \E note \in 0..(FullScaleLength - 1) :
           sequence = [i \in 0..(StepCapacity - 1) |-> IF i = 0 THEN note ELSE 0]
    /\ sequenceLinear = [i \in 0..(StepCapacity - 1) |-> 0]
    /\ fullScales = TableAfterSetup
    /\ spill = Unknown
    /\ spillLinear = Unknown
    /\ reg = 0
    /\ PB5 = "HIGH"
    /\ PA4 = 0
    /\ countFlag = 0
    /\ nEdges = 0
    /\ nResets = 0
    /\ scaleIndex = ScaleTypeCount
    /\ noteIndex = 0
    /\ patternIndex = 0
    /\ octave = 0
    /\ tick = NoTick
    /\ trace = <<>>

CodecNext == Play /\ Unobserved

SpecCodec == Init_codec /\ [][CodecNext]_vars

----------------------------------------------------------------------------
(* The earlier firmware revision, src/mudras.ino: one step array for both    *)
(* modes, a hard-coded scale table, affine knob maps, the cursor advanced    *)
(* before the step is accessed, no reset input.  Its clock handler is the    *)
(* only interrupt handler, so a tick is cut only where the flag is involved. *)

\* distance readings (mm): the top of the range, and above the range
InoSensorValues == {675, 676}
\* positions of the scale knob: Major, linear
InoScaleKnobValues == {0, 1023}
\* positions of the length knob: 2 and 4 steps
InoLengthKnobValues == {0, 400}

ScaleColumns == 24

scale ==
    << <<0, 2, 4, 5, 7, 9, 11, 12, 14, 16, 17, 19, 21, 23, 24, 26, 28, 29, 31, 33, 35, 36, 36, 36>>,
       <<0, 2, 4, 5, 7, 9, 10, 12, 14, 16, 17, 19, 21, 22, 24, 26, 28, 29, 31, 33, 34, 36, 36, 36>>,
       <<0, 0, 3, 3, 5, 5, 7, 7, 10, 10, 12, 12, 15, 15, 17, 17, 19, 19, 22, 22, 24, 24, 27, 29>>,
       <<0, 2, 3, 5, 7, 8, 11, 12, 14, 15, 17, 19, 20, 23, 24, 26, 27, 29, 31, 32, 35, 36, 36, 36>>,
       <<0, 2, 3, 5, 7, 8, 10, 12, 14, 15, 17, 19, 20, 22, 24, 26, 27, 29, 31, 32, 34, 36, 36, 36>>,
       <<0, 2, 4, 6, 8, 10, 12, 14, 16, 18, 20, 22, 24, 26, 28, 30, 32, 34, 36, 38, 38, 38, 38, 38>>,
       <<0, 1, 2, 3, 4, 5, 6, 7, 8, 9, 10, 11, 12, 13, 14, 15, 16, 17, 18, 19, 20, 21, 22, 23>> >>

\* the semitones scale[mode][noteIdx] can yield: a column outside the row reads
\* memory outside the table
ScaleLoads(mode, noteIdx) ==
    IF noteIdx \in 0..(ScaleColumns - 1)
    THEN {scale[mode + 1][noteIdx + 1]}
    ELSE GarbageBytes

\* countSize after loopLength(): switch (map(seqLength, 0, 1023, 0, 6))
loopLengthSize_ino(seqLength, old) ==
    LET range == map(seqLength, 0, 1023, 0, 6)
    IN  CASE range = 0 -> 1
          [] range = 1 -> 2
          [] range = 2 -> 3
          [] range = 3 -> 7
          [] range = 4 -> 15
          [] range = 5 -> 31
          [] range = 6 -> 63
          [] OTHER -> old

\* mm after readsensor(): the constrain() result is dropped
sensorNote_ino(reading) ==
    map(IF reading > 675 THEN 0 ELSE reading, 20, 675, 0, 18)

\* raw_mm after readsensor(): the constrain() result is dropped
sensorLinear_ino(reading) ==
    map(IF reading > 675 THEN 0 ELSE reading, 20, 650, 0, 4095)

\* the globals' initializers, then setup()
Init_ino ==
    /\ \E begun \in BOOLEAN, seqLength \in InoLengthKnobValues :
           /\ pc = IF begun THEN "knobs" ELSE "halted"
           /\ countSize = IF begun THEN loopLengthSize_ino(seqLength, 3) ELSE 3
           /\ noteSeqPot = IF begun THEN seqLength ELSE 0
    /\ scaleKnob = 0
    /\ NoteMode = 0
    /\ NumberOfNotes = 0
    /\ clockInput = FALSE
    /\ count = 0 - 1
    /\ countFlag = 0
    /\ mm = 0
    /\ raw_mm = 0
    /\ dacU = 0
    /\ sequence = [i \in 0..(StepCapacity - 1) |-> 0]
    /\ sequenceLinear = [i \in 0..(StepCapacity - 1) |-> 0]
    /\ fullScales = TableAfterSetup
    /\ spill = Unknown
    /\ spillLinear = Unknown
    /\ reg = 0
    /\ PB5 = "HIGH"
    /\ PA4 = 0
    /\ nEdges = 0
    /\ nResets = 0
    /\ tick = NoTick
    /\ scaleIndex = 0
    /\ noteIndex = 0
    /\ patternIndex = 0
    /\ octave = 0
    /\ trace = <<>>

\* the variables src/mudras.ino does not have
NotInIno == <<NumberOfNotes, sequenceLinear, fullScales, spill, spillLinear, reg, nResets,
              scaleIndex, noteIndex, patternIndex, octave>>

scaleMode_ino(scalemode) == NoteMode' = map(scalemode, 0, 1023, 0, 7)

loopLength_ino(seqLength) == countSize' = loopLengthSize_ino(seqLength, countSize)

\* knobs()
knobs_ino ==
    /\ pc = "knobs"
    /\ pc' = "sensor"
    /\ \/ \E scalemode \in InoScaleKnobValues :
              scaleKnob' = scalemode /\ scaleMode_ino(scalemode)
       \/ UNCHANGED <<scaleKnob, NoteMode>>
    /\ \/ \E seqLength \in InoLengthKnobValues :
              noteSeqPot' = seqLength /\ loopLength_ino(seqLength)
       \/ UNCHANGED <<noteSeqPot, countSize>>
    /\ UNCHANGED <<scaleIndex, noteIndex, patternIndex, octave, clockInput, count, countFlag, mm, raw_mm, dacU, sequence, PB5, PA4,
                   nEdges>>
    /\ UNCHANGED NotInIno

readsensor_ino(reading) ==
    /\ raw_mm' = sensorLinear_ino(reading)
    /\ mm' = sensorNote_ino(reading)

\* if (lox.isRangeComplete()) readsensor();
PollSensor_ino ==
    /\ pc = "sensor"
    /\ pc' = "test"
    /\ \/ \E reading \in InoSensorValues : readsensor_ino(reading)
       \/ UNCHANGED <<mm, raw_mm>>
    /\ UNCHANGED <<scaleIndex, noteIndex, patternIndex, octave, scaleKnob, noteSeqPot, clockInput, count, countFlag, countSize, NoteMode, dacU, sequence,
                   PB5, PA4, nEdges>>
    /\ UNCHANGED NotInIno

\* if (poo)
TestFlag_ino ==
    /\ pc = "test"
    /\ pc' = IF clockInput THEN "clear" ELSE "knobs"
    /\ UNCHANGED <<scaleIndex, noteIndex, patternIndex, octave, scaleKnob, noteSeqPot, clockInput, count, countFlag, countSize, NoteMode, mm, raw_mm, dacU,
                   sequence, PB5, PA4, nEdges>>
    /\ UNCHANGED NotInIno

\* poo = false
ClearFlag_ino ==
    /\ pc = "clear"
    /\ pc' = "advance"
    /\ clockInput' = FALSE
    /\ UNCHANGED <<scaleIndex, noteIndex, patternIndex, octave, scaleKnob, noteSeqPot, count, countFlag, countSize, NoteMode, mm, raw_mm, dacU, sequence,
                   PB5, PA4, nEdges>>
    /\ UNCHANGED NotInIno

\* count++; if (count > countSize) count = 0;
Advance_ino ==
    /\ pc = "advance"
    /\ pc' = "button"
    /\ count' = IF count + 1 > countSize THEN 0 ELSE count + 1
    /\ UNCHANGED <<scaleIndex, noteIndex, patternIndex, octave, scaleKnob, noteSeqPot, clockInput, countFlag, countSize, NoteMode, mm, raw_mm, dacU,
                   sequence, PB5, PA4, nEdges>>
    /\ UNCHANGED NotInIno

\* the store of recordSeq(), up to its call of playSeq(), at cursor c
recordSeq_ino(c) ==
    sequence' = [sequence EXCEPT ![c] = IF NoteMode = 7 THEN raw_mm ELSE mm]

\* the button read as it would be if the punch-in left countFlag set
ReadButton_ino_flag_kept ==
    /\ pc = "button"
    /\ pc' = "play"
    /\ PB5' \in {"LOW", "HIGH"}
    /\ IF PB5' = "LOW"
       THEN /\ count' = IF countFlag = 1 THEN 0 ELSE count
            /\ UNCHANGED countFlag
            /\ recordSeq_ino(count')
       ELSE /\ countFlag' = 1
            /\ UNCHANGED <<count, sequence>>
    /\ UNCHANGED <<scaleIndex, noteIndex, patternIndex, octave, scaleKnob, noteSeqPot, clockInput, countSize, NoteMode, mm, raw_mm, dacU, PA4, nEdges>>
    /\ UNCHANGED NotInIno

\* if (digitalRead(D4) == LOW) { if (countFlag == 1) ... recordSeq(); }
\* else { countFlag = 1; playSeq(); }
ReadButton_ino ==
    /\ pc = "button"
    /\ pc' = "play"
    /\ PB5' \in {"LOW", "HIGH"}
    /\ IF PB5' = "LOW"
       THEN /\ count' = IF countFlag = 1 THEN 0 ELSE count
            /\ countFlag' = 0
            /\ recordSeq_ino(count')
       ELSE /\ countFlag' = 1
            /\ UNCHANGED <<count, sequence>>
    /\ UNCHANGED <<scaleIndex, noteIndex, patternIndex, octave, scaleKnob, noteSeqPot, clockInput, countSize, NoteMode, mm, raw_mm, dacU, PA4, nEdges>>
    /\ UNCHANGED NotInIno

\* playSeq(), called by loop() or at the end of recordSeq()
playSeq_ino ==
    IF NoteMode = 7
    THEN dacU' = sequence[count]
    ELSE \E midi_note \in ScaleLoads(NoteMode, sequence[count]) :
             dacU' = dacCode[midi_note]

Play_ino ==
    /\ pc = "play"
    /\ pc' = "knobs"
    /\ playSeq_ino
    /\ PA4' = dacU'
    /\ UNCHANGED <<scaleIndex, noteIndex, patternIndex, octave, scaleKnob, noteSeqPot, clockInput, count, countFlag, countSize, NoteMode, mm, raw_mm,
                   sequence, PB5, nEdges>>
    /\ UNCHANGED NotInIno

\* falling edge on the clock input: gate() sets poo
gate_ino ==
    /\ clockInput' = TRUE
    /\ nEdges' = nEdges + 1
    /\ UNCHANGED <<scaleKnob, noteSeqPot, pc, count, countFlag, countSize, NoteMode,
                   mm, raw_mm, dacU, sequence, PB5, PA4>>
    /\ UNCHANGED NotInIno

ClockEdge_ino == nEdges < MaxEdges /\ gate_ino

Next_ino ==
    \/ ClockEdge_ino /\ Unobserved
    \/ knobs_ino /\ Unobserved
    \/ PollSensor_ino /\ Unobserved
    \/ TestFlag_ino /\ Unobserved
    \/ ClearFlag_ino /\ Unobserved
    \/ Advance_ino /\ Unobserved
    \/ ReadButton_ino /\ Unobserved
    \/ Play_ino /\ Unobserved

SpecIno == Init_ino /\ [][Next_ino]_vars

----------------------------------------------------------------------------
(* src/mudras.ino with the knobs at rest, its ticks logged: trace holds, for  *)
(* each processed tick, whether the button was read held and the cursor at    *)
(* which the step was then recorded or played.                                *)

\* knobs() when neither knob reports a change
KnobsAtRest_ino ==
    /\ pc = "knobs"
    /\ pc' = "sensor"
    /\ UNCHANGED <<scaleIndex, noteIndex, patternIndex, octave, scaleKnob, noteSeqPot,
                   clockInput, count, countFlag, countSize, NoteMode, mm, raw_mm, dacU,
                   sequence, PB5, PA4, nEdges>>
    /\ UNCHANGED NotInIno

ObserveButton_ino ==
    /\ trace' = Append(trace, [rec |-> PB5' = "LOW", idx |-> count'])
    /\ UNCHANGED tick

SteadyEdge_ino == nEdges < MaxSteadyEdges /\ gate_ino

SteadyNext_ino ==
    \/ SteadyEdge_ino /\ Unobserved
    \/ KnobsAtRest_ino /\ Unobserved
    \/ PollSensor_ino /\ Unobserved
    \/ TestFlag_ino /\ Unobserved
    \/ ClearFlag_ino /\ Unobserved
    \/ Advance_ino /\ Unobserved
    \/ ReadButton_ino /\ ObserveButton_ino
    \/ Play_ino /\ Unobserved

SpecInoSteady == Init_ino /\ [][SteadyNext_ino]_vars

----------------------------------------------------------------------------
(* Properties of the logged ticks *)

\* the first countSize + 1 ticks were record ticks and every later one a play tick
RecordedOnePass ==
    /\ Len(trace) > countSize + 1
    /\ \A i \in 1..Len(trace) : trace[i].rec <=> (i <= countSize + 1)

\* every tick so far was a play tick
OnlyPlayed == \A i \in 1..Len(trace) : ~trace[i].rec

\* C1: record/playback round trip.  After the record button was held during
\* exactly the first countSize + 1 ticks since power-up, every later tick emits
\* the output of the value captured at the same position of the recorded pass.
C1_RoundTrip ==
    RecordedOnePass =>
        \A j \in (countSize + 2)..Len(trace) :
            trace[j].out \in trace[((j - 1) % (countSize + 1)) + 1].want

\* C2: with the record button released, the cursor after the n-th processed
\* tick since power-up is (n - 1) mod (countSize + 1), and it has no other
\* value between the ticks.
C2_CursorCycle ==
    (pc # "halted" /\ OnlyPlayed) =>
        /\ \A n \in 1..Len(trace) : trace[n].after = (n - 1) % (countSize + 1)
        /\ (Len(trace) > 0 => count = trace[Len(trace)].after)

\* the cursor has gone round a two-step loop and is back at 0 a second time
C2_Witness ==
    /\ OnlyPlayed
    /\ Len(trace) = 5
    /\ countSize = 1
    /\ trace[3].after = 0
    /\ trace[5].after = 0
    /\ count = 0

\* C4: a record tick that follows a play tick stores into step 0.
C4_PunchInAtZero ==
    \A i \in 2..Len(trace) :
        (trace[i].rec /\ ~trace[i - 1].rec) => trace[i].idx = 0

----------------------------------------------------------------------------
(* Properties of the firmware under every interleaving *)

C5_ResetEdge ==
    [][ nResets' # nResets =>
            /\ count' = 0
            /\ sequence' = sequence
            /\ sequenceLinear' = sequenceLinear ]_vars

\* a reset edge has come while a record tick was between its step access and
\* its cursor write-back, with steps recorded
C5_Witness ==
    /\ nResets = 1
    /\ count = 0
    /\ PB5 = "LOW"
    /\ pc = "store"
    /\ reg = 1
    /\ sequence[0] # 0

\* C6: an interrupt handler (clock edge, reset edge) writes neither the cursor,
\* the loop length, the mode nor the step storage.
C6_HandlersOnlySetFlags ==
    [][ (nEdges' # nEdges \/ nResets' # nResets) =>
            UNCHANGED <<count, countSize, NoteMode, NumberOfNotes,
                        sequence, sequenceLinear>> ]_vars

\* the steps of a tick that follow the clear of the flag
Processing == {"button", "play", "load", "store"}

\* C7: the flag falls only at the clear that precedes the processing of a
\* tick, so an edge that arrives during the processing leaves it set, and the
\* main loop then comes to process a further tick.
C7_NoEdgeLost ==
    /\ [][ (clockInput /\ ~clockInput') => (pc = "clear" /\ pc' = "button") ]_vars
    /\ ((clockInput /\ pc \in Processing) ~> (pc = "clear"))

\* a clock edge has arrived while a tick was being processed
C7_Witness == clockInput /\ pc = "play" /\ nEdges = 2

\* C8: every access of the step storage uses a cursor in 0..63.
C8_StepIndexInStore == pc = "play" => InStore(count)

\* C9: every scale-table lookup of playSeq uses a row in 0..6 and a note index
\* inside the row (0..23 for the hard-coded table of src/mudras.ino), also
\* after the scale knob went from linear to a scale with steps recorded.
C9_LookupInTable ==
    (pc = "play" /\ NoteMode # 7) =>
        /\ NoteMode \in 0..(ScaleTypeCount - 1)
        /\ sequence[count] \in 0..(ScaleColumns - 1)

\* C10: every code written to the CV output by a tick whose cursor lies in the
\* step storage is in 0..4095, in scale modes and in linear mode.
C10_CodeInRange ==
    \A i \in 1..Len(trace) :
        InStore(trace[i].idx) => trace[i].out \in 0..(RESOLUTION_12_BIT - 1)

\* C11: a record tick whose sensor reading is above the ceiling records and
\* emits the value of the minimum distance: note index 0 through the codec in
\* a scale mode, code 0 in linear mode (ticks whose cursor lies in the step
\* storage).
C11_AboveCeilingIsMinimum ==
    \A i \in 1..Len(trace) :
        (trace[i].rec /\ InStore(trace[i].idx) /\ trace[i].above)
            => trace[i].out \in OutputsFor(NoteMode, 0)

\* C12: when the length knob sets countSize below the cursor, the cursor and
\* the stored steps stay as they are at that moment; the cursor advance of the
\* next processed tick leaves count <= countSize; and at most one step above
\* countSize is played or recorded in between.
C12_LengthLowered ==
    /\ [][ LoweredBelowCursor =>
               /\ count' = count
               /\ sequence' = sequence
               /\ sequenceLinear' = sequenceLinear ]_vars
    /\ [][ (pc = "store" /\ pc' = "knobs") => count' <= countSize' ]_vars
    /\ [](Len(trace) <= 1)

\* step 2 was played after the knob lowered the loop to 2 steps, and the
\* cursor has wrapped to 0
C12_Witness ==
    /\ trace = <<2>>
    /\ countSize = 1
    /\ count = 0
    /\ pc = "knobs"

\* C13: for every position of the scale knob scaleMode() leaves NoteMode in
\* 0..7, determined by the position alone and non-decreasing in it: a knob
\* turned up never lowers the mode, a knob turned down never raises it.
C13_ScaleKnobTable ==
    [][ /\ NoteMode' \in 0..7
        /\ (scaleKnob' >= scaleKnob => NoteMode' >= NoteMode)
        /\ (scaleKnob' <= scaleKnob => NoteMode' <= NoteMode) ]_vars

\* the loop lengths, as last step indices
LoopLengths == {1, 2, 3, 7, 15, 31, 63}

\* C14: for every position of the length knob loopLength() leaves countSize in
\* {1, 2, 3, 7, 15, 31, 63}, non-decreasing in the position, so countSize + 1
\* never exceeds the 64 steps of the storage.
C14_LengthKnobTable ==
    /\ [](countSize \in LoopLengths /\ countSize + 1 <= StepCapacity)
    /\ [][ /\ (noteSeqPot' >= noteSeqPot => countSize' >= countSize)
           /\ (noteSeqPot' <= noteSeqPot => countSize' <= countSize) ]_vars

\* the length knob is at the first position of its highest band
C14_Witness == pc = "knobs" /\ noteSeqPot = 800 /\ countSize = 63

\* the rows generateFullScales() has completed
Generated == 0..(scaleIndex - 1)

\* C15: after generateFullScales() every entry of every row lies in 0..36.
C15_EntriesInRange ==
    \A s \in Generated : \A i \in 0..(FullScaleLength - 1) :
        fullScales[s][i] \in 0..36

\* C16: after generateFullScales() every row starts with 0 and is
\* non-decreasing over its 37 entries, padding included.
C16_RowsNonDecreasing ==
    \A s \in Generated :
        /\ fullScales[s][0] = 0
        /\ \A i \in 0..(FullScaleLength - 2) : fullScales[s][i] <= fullScales[s][i + 1]

\* the highest of the noteIndex notes generated for the row being built
HighestGenerated ==
    LET notes == {fullScales[scaleIndex][j] : j \in 0..(noteIndex - 1)}
    IN  CHOOSE v \in notes : \A w \in notes : w <= v

\* C17: when the generation of a row stops at the octave limit before the row
\* is full, every padding entry is one semitone above the highest note
\* generated for the row.
C17_PaddingAboveHighest ==
    [][ (pc = "pad" /\ 0 < noteIndex /\ noteIndex < FullScaleLength) =>
            \A i \in noteIndex..(FullScaleLength - 1) :
                fullScales'[scaleIndex][i] = HighestGenerated + 1 ]_vars

\* C18: generateFullScales() reads no pattern slot at index 12 or above.
C18_PatternReadInRow ==
    (pc = "generate" /\ noteIndex < FullScaleLength) => patternIndex < PatternSlots

\* C19: in linear mode a record tick whose reading is in range (it maps to a
\* code above 0) plays back, from the step it stored, the linear code computed
\* for the reading (ticks whose cursor lies in the step storage).
C19_LinearFidelity ==
    \A i \in 1..Len(trace) :
        (trace[i].rec /\ InStore(trace[i].idx) /\ NoteMode = 7 /\ trace[i].want # {0})
            => trace[i].out \in trace[i].want

\* the semitone values the scale tables can hold
TableSemitones ==
    UNION {FullScaleLoads(s, i) : s \in 0..(ScaleTypeCount - 1),
                                  i \in 0..(FullScaleLength - 1)}

\* the ceiling of (n / 12) / 3.3 * 4095
CeilingCode(n) == CeilDiv(n * (RESOLUTION_12_BIT - 1) * 10, 12 * 33)

C21_HaltedForever ==
    [][ pc = "halted" =>
            /\ pc' = "halted"
            /\ UNCHANGED <<count, sequence, sequenceLinear, spill, spillLinear, PA4>> ]_vars

\* the record button is read held, a reading has been delivered and the
\* cursor lies in the step storage
RecordsSample ==
    /\ pc = "button"
    /\ pc' = "play"
    /\ PB5' = "LOW"
    /\ trace # <<>>
    /\ InStore(count)

\* C22: a record tick stores at the cursor the byte of the mapped value of the
\* last reading the sensor delivered, under the current mode; and a record
\* tick that follows a record tick with no new reading in between stores the
\* value that one stored.
C22_StoresLatestReading ==
    [][ RecordsSample =>
            /\ Stored(count)' = Byte(MappedValue(trace[1], NoteMode, NumberOfNotes))
            /\ (tick.rec => Stored(count)' = tick.out) ]_vars

\* C23: on every record tick, in scale modes and in linear mode, for readings
\* in range and out of range, the code emitted is the output of the value
\* captured on that tick (in linear mode: of the byte of it the step holds),
\* never of a value an earlier tick stored (ticks whose cursor lies in the
\* step storage).
C23_MonitorsCapture ==
    \A i \in 1..Len(trace) :
        (trace[i].rec /\ InStore(trace[i].idx)) =>
            \/ trace[i].out \in trace[i].want
            \/ NoteMode = 7 /\ trace[i].out \in {Byte(code) : code \in trace[i].want}

\* C24: every processed tick records or plays the step at the advanced cursor
\* (the cursor before the tick plus one, wrapped to 0 above countSize), so the
\* first tick after power-up acts on step 0.
C24_AdvanceBeforeAccess ==
    \A i \in 1..Len(trace) :
        LET before == IF i = 1 THEN Byte(-1) ELSE trace[i - 1].after
        IN  trace[i].idx = incrementAndWrapCount(before, countSize)

\* the main loop reads the record button held: the step of a record tick that
\* stores
RecordTick == pc = "button" /\ pc' = "play" /\ PB5' = "LOW"

\* C25: only a tick processed with the record button held writes the step
\* storage, and it writes one entry, the one at the cursor; play ticks, reset
\* edges, knob changes and sensor reads leave every entry as it was.
C25_OnlyRecordWrites ==
    [][ /\ ~RecordTick => UNCHANGED <<sequence, sequenceLinear>>
        /\ RecordTick =>
               /\ InStore(count)
               /\ \A i \in 0..(StepCapacity - 1) :
                      i # count => /\ sequence'[i] = sequence[i]
                                   /\ sequenceLinear'[i] = sequenceLinear[i]
               /\ (sequence' = sequence \/ sequenceLinear' = sequenceLinear) ]_vars

\* a tick processed with the record button released emits its code, the cursor
\* in the step storage
PlayTick == pc = "play" /\ pc' = "load" /\ PB5 = "HIGH" /\ InStore(count)

\* the codes that stand for the step at the cursor under the mode selected now
PlaybackCodes ==
    IF NoteMode # 7
    THEN {CeilingCode(n) : n \in EntryValues(NoteMode, sequence[count])}
    ELSE {sequenceLinear[count]}

\* C26: the code a play tick emits is determined by the entry stored at the
\* cursor and the mode selected at that tick: the entry looked up in the
\* current scale's row and put through the codec, or the linear entry itself,
\* whatever mode the step was recorded under.
C26_PlaybackReinterprets == [][ PlayTick => PA4' \in PlaybackCodes ]_vars

\* a step recorded under Chromatic (note index 35) has been played under
\* Major, as the padding semitone 36 of the Major row
C26_Witness ==
    /\ pc = "load"
    /\ PB5 = "HIGH"
    /\ InStore(count)
    /\ NoteMode = 0
    /\ sequence[count] = 35
    /\ PA4 = CeilingCode(36)

\* the number of notes of pattern s: the slots before its sentinel
PatternLength(s) ==
    LET ends == {j \in 1..PatternSlots : scalePatterns[s + 1][j] = Sentinel}
    IN  IF ends = {} THEN PatternSlots
        ELSE (CHOOSE j \in ends : \A other \in ends : j <= other) - 1

\* C27: for every row generateFullScales() has completed and its pattern of P
\* notes, the entries of the octaves 0..3 are table[k] = pattern[k mod P] +
\* 12 * (k div P), so the first P entries are the pattern itself.
C27_WalkAndRestart ==
    \A s \in Generated :
        LET P == PatternLength(s)
        IN  \A k \in 0..(FullScaleLength - 1) :
                k < 4 * P =>
                    fullScales[s][k] = scalePatterns[s + 1][(k % P) + 1] + 12 * (k \div P)

\* C28: in src/mudras.ino, after readsensor() raw_mm lies in 0..4095 and mm in
\* 0..18, whatever the sensor reads.
C28_SensorInRange ==
    /\ raw_mm \in 0..(RESOLUTION_12_BIT - 1)
    /\ mm \in 0..18

\* the positions of the main loop from its step access to its cursor
\* write-back, and those outside the processing of a tick
AccessToAdvance == {"load", "store"}
OutsideTick == {"knobs", "sensor", "test", "clear"}

\* C29: the first tick the main loop begins after a reset edge records or
\* plays step 0, the reset edge having fallen before or after the processing
\* of a tick, or between its step access and its cursor write-back.
C29_ResetThenStepZero ==
    ( /\ Len(trace) = 2
      /\ trace[1] \in AccessToAdvance \cup OutsideTick
      /\ pc \in {"button", "play"} ) => count = 0

\* C30: in src/mudras.ino a record tick that follows a play tick (or is the
\* first tick) records at step 0, and every record tick that follows a record
\* tick records at the step after that one's, step 0 after step countSize: the
\* cursor is not forced to 0 again while the button stays held.
C30_PunchInOnce ==
    \A i \in 1..Len(trace) :
        trace[i].rec =>
            trace[i].idx = IF i > 1 /\ trace[i - 1].rec
                           THEN (trace[i - 1].idx + 1) % (countSize + 1)
                           ELSE 0

\* the button was held for three ticks after a play tick, on a two-step loop:
\* steps 0, 1 and 0 again were recorded
C30_Witness ==
    /\ countSize = 1
    /\ Len(trace) = 5
    /\ ~trace[2].rec
    /\ trace[3].rec /\ trace[3].idx = 0
    /\ trace[4].rec /\ trace[4].idx = 1
    /\ trace[5].rec /\ trace[5].idx = 0

\* the ticks the main loop has begun to process: those logged, and the one in
\* progress
TicksBegun == Len(trace) + (IF pc \in Processing THEN 1 ELSE 0)

\* C31: the ticks processed never outnumber the clock edges: the flag rises
\* only at a clock edge, a tick begins only by clearing a set flag, and the
\* ticks begun are at most the edges so far (edges that find the flag set add
\* no tick).
C31_TicksWithinEdges ==
    /\ [](TicksBegun <= nEdges)
    /\ [][ (~clockInput /\ clockInput') => nEdges' = nEdges + 1 ]_vars
    /\ [][ (pc = "clear" /\ pc' = "button") => (clockInput /\ ~clockInput') ]_vars

\* two clock edges found the flag between its test and its clear, and one
\* tick has consumed both
C31_Witness ==
    /\ nEdges = 2
    /\ Len(trace) = 1
    /\ ~clockInput
    /\ pc = "knobs"

====
